---- MODULE Spec2Model ----
(***************************************************************************)
(* A model of lib/sitemap-item.ts: the attribute extractor (attrBuilder),   *)
(* the video duration gate (safeDuration), and the SitemapItem class        *)
(* (constructor, buildVideoElement, buildXML, toString).                    *)
(*                                                                          *)
(* JavaScript values are modelled as follows.  A string is a TLA+ string;   *)
(* Undefined stands for the value undefined (an absent key) and "" for the  *)
(* empty string, the two falsy strings.  Where the code looks inside a      *)
(* string (String.split, RegExp.test) the model looks at its characters,    *)
(* which Chars gives.  A number is a record [t |-> "num", n |-> ...].       *)
(***************************************************************************)
EXTENDS Integers, Sequences, FiniteSets, TLC

\* The number of toString/toXML/buildXML calls made on one item.
MaxBuilds == 2

Undefined == "undefined"

\* if (x) for a string-valued or absent field
Truthy(v) == v # Undefined /\ v # ""

(***************************************************************************)
(* Characters of the strings whose content the code inspects.              *)
(***************************************************************************)
Chars ==
     "player_loc:autoplay" :> <<"p", "l", "a", "y", "e", "r", "_", "l", "o", "c", ":", "a", "u", "t", "o", "p", "l", "a", "y">> @@
     "restriction:relationship" :> <<"r", "e", "s", "t", "r", "i", "c", "t", "i", "o", "n", ":", "r", "e", "l", "a", "t", "i", "o", "n", "s", "h", "i", "p">> @@
     "price:resolution" :> <<"p", "r", "i", "c", "e", ":", "r", "e", "s", "o", "l", "u", "t", "i", "o", "n">> @@
     "price:currency" :> <<"p", "r", "i", "c", "e", ":", "c", "u", "r", "r", "e", "n", "c", "y">> @@
     "price:type" :> <<"p", "r", "i", "c", "e", ":", "t", "y", "p", "e">> @@
     "platform:relationship" :> <<"p", "l", "a", "t", "f", "o", "r", "m", ":", "r", "e", "l", "a", "t", "i", "o", "n", "s", "h", "i", "p">> @@
     "bogus" :> <<"b", "o", "g", "u", "s">> @@
     "a:b:c" :> <<"a", ":", "b", ":", "c">> @@
     "b" :> <<"b">> @@
     "autoplay" :> <<"a", "u", "t", "o", "p", "l", "a", "y">> @@
     "relationship" :> <<"r", "e", "l", "a", "t", "i", "o", "n", "s", "h", "i", "p">> @@
     "resolution" :> <<"r", "e", "s", "o", "l", "u", "t", "i", "o", "n">> @@
     "currency" :> <<"c", "u", "r", "r", "e", "n", "c", "y">> @@
     "type" :> <<"t", "y", "p", "e">> @@
     "allow" :> <<"a", "l", "l", "o", "w">> @@
     "deny" :> <<"d", "e", "n", "y">> @@
     "allowed" :> <<"a", "l", "l", "o", "w", "e", "d">> @@
     "Allow" :> <<"A", "l", "l", "o", "w">> @@
     "USD" :> <<"U", "S", "D">> @@
     "usd" :> <<"u", "s", "d">> @@
     "rent" :> <<"r", "e", "n", "t">> @@
     "purchase" :> <<"p", "u", "r", "c", "h", "a", "s", "e">> @@
     "RENT" :> <<"R", "E", "N", "T">> @@
     "PURCHASE" :> <<"P", "U", "R", "C", "H", "A", "S", "E">> @@
     "Rent" :> <<"R", "e", "n", "t">> @@
     "rental" :> <<"r", "e", "n", "t", "a", "l">> @@
     "HD" :> <<"H", "D">> @@
     "hd" :> <<"h", "d">> @@
     "sd" :> <<"s", "d">> @@
     "SD" :> <<"S", "D">> @@
     "Hd" :> <<"H", "d">> @@
     "hdr" :> <<"h", "d", "r">> @@
     "yes" :> <<"y", "e", "s">>

\* The string made of the characters c (the inverse of Chars).
Str(c) == CHOOSE s \in DOMAIN Chars : Chars[s] = c

UpperLetters ==
    {"A", "B", "C", "D", "E", "F", "G", "H", "I", "J", "K", "L", "M",
     "N", "O", "P", "Q", "R", "S", "T", "U", "V", "W", "X", "Y", "Z"}

\* s begins with p: the regular expression ^p
StartsWith(s, p) == Len(s) >= Len(p) /\ SubSeq(s, 1, Len(p)) = p

\* s ends with p: the regular expression p$
EndsWith(s, p) == Len(s) >= Len(p) /\ SubSeq(s, Len(s) - Len(p) + 1, Len(s)) = p

\* p occurs somewhere in s: the regular expression p, unanchored
Contains(s, p) ==
    \E i \in 1..(Len(s) - Len(p) + 1) : SubSeq(s, i, i + Len(p) - 1) = p

\* const allowDeny = /^allow|deny$/ : the alternation binds weaker than the
\* anchors, so this is (^allow) or (deny$).
allowDeny(s) == StartsWith(s, Chars["allow"]) \/ EndsWith(s, Chars["deny"])

\* The keys of the validators object.
ValidatedKeys ==
    {"price:currency", "price:type", "price:resolution",
     "platform:relationship", "restriction:relationship"}

\* validators[key].test(value), for key in ValidatedKeys
validators(key, value) ==
    LET s == Chars[value] IN
    CASE key = "price:currency" ->
           Len(s) = 3 /\ \A i \in 1..3 : s[i] \in UpperLetters
      [] key = "price:type" ->
           \/ StartsWith(s, Chars["rent"])
           \/ Contains(s, Chars["purchase"])
           \/ Contains(s, Chars["RENT"])
           \/ EndsWith(s, Chars["PURCHASE"])
      [] key = "price:resolution" ->
           \/ StartsWith(s, Chars["HD"])
           \/ Contains(s, Chars["hd"])
           \/ Contains(s, Chars["sd"])
           \/ EndsWith(s, Chars["SD"])
      [] key = "platform:relationship" -> allowDeny(s)
      [] key = "restriction:relationship" -> allowDeny(s)

\* key.split(':')
RECURSIVE SplitFrom(_, _, _)
SplitFrom(s, i, cur) ==
    IF i > Len(s) THEN <<cur>>
    ELSE IF s[i] = ":" THEN <<cur>> \o SplitFrom(s, i + 1, <<>>)
    ELSE SplitFrom(s, i + 1, Append(cur, s[i]))

Split(key) == SplitFrom(Chars[key], 1, <<>>)

\* Errors.  key and val are the arguments the error is constructed with.
NoError == [name |-> "none", key |-> "", val |-> ""]
Error(name) == [name |-> name, key |-> "", val |-> ""]
InvalidAttr(key) == [name |-> "InvalidAttr", key |-> key, val |-> ""]
InvalidAttrValue(key, val) == [name |-> "InvalidAttrValue", key |-> key, val |-> val]

\* conf[key]
Get(conf, key) == IF key \in DOMAIN conf THEN conf[key] ELSE Undefined

\* attrs[name] = value : an attribute map is a set of <<name, value>> pairs
SetAttr(attrs, name, value) ==
    {a \in attrs : a[1] # name} \cup {<<name, value>>}

\* keyAr.length !== 2 mutated: only a key without a colon is malformed
malformedKeyShort(keyAr) == Len(keyAr) < 2

\* if (keyAr.length !== 2)
malformedKey(keyAr) == Len(keyAr) # 2

\* One step of the reduce callback of attrBuilder, on the accumulator
\* acc = [err, attrs]; a throw ends the reduce.
AttrStep(acc, conf, key) ==
    IF acc.err # NoError THEN acc
    ELSE IF Get(conf, key) = Undefined THEN acc
    ELSE LET keyAr == Split(key) IN
         IF malformedKey(keyAr) THEN [acc EXCEPT !.err = InvalidAttr(key)]
         ELSE IF key \in ValidatedKeys /\ ~validators(key, Get(conf, key))
              THEN [acc EXCEPT !.err = InvalidAttrValue(key, Get(conf, key))]
         ELSE [acc EXCEPT !.attrs = SetAttr(@, Str(keyAr[2]), Get(conf, key))]

RECURSIVE AttrReduce(_, _, _, _)
AttrReduce(acc, conf, keys, i) ==
    IF i > Len(keys) THEN acc
    ELSE AttrReduce(AttrStep(acc, conf, keys[i]), conf, keys, i + 1)

\* attrBuilder(conf, keys); a string key is the list of that one key.
\* The result is [err, attrs]: attrs is returned when err = NoError.
attrBuilder(conf, keys) == AttrReduce([err |-> NoError, attrs |-> {}], conf, keys, 1)

(***************************************************************************)
(* JavaScript values of the fields that are not plain strings (priority,   *)
(* duration, mobile) and the text of XML nodes.  Priorities are counted in *)
(* hundredths (0.7 is 70), durations in seconds.                           *)
(***************************************************************************)
Undef == [t |-> "undefined", s |-> "", n |-> 0]
Null == [t |-> "object", s |-> "null", n |-> 0]
NaN == [t |-> "number", s |-> "NaN", n |-> 0]
NumV(n) == [t |-> "number", s |-> "", n |-> n]
StrV(s) == [t |-> "string", s |-> s, n |-> 0]
BoolV(s) == [t |-> "boolean", s |-> s, n |-> 0]

\* if (v)
TruthyV(v) ==
    CASE v = Undef \/ v = Null \/ v = NaN -> FALSE
      [] v.t = "number" -> v.n # 0
      [] v.t = "string" -> v.s # ""
      [] v.t = "boolean" -> v.s = "true"

\* The strings the model uses that read as numbers, with their value in
\* hundredths.
NumericStrings == {"0.5"}
HundredthsOf(s) == CASE s = "0.5" -> 50

\* ToNumber(v), as the relational operators apply it: NaN or a number
ToNumber(v) ==
    CASE v = Undef \/ v = NaN -> NaN
      [] v = Null -> NumV(0)
      [] v.t = "number" -> v
      [] v.t = "boolean" -> IF v.s = "true" THEN NumV(100) ELSE NumV(0)
      [] v.t = "string" ->
           IF v.s = "" THEN NumV(0)
           ELSE IF v.s \in NumericStrings THEN NumV(HundredthsOf(v.s))
           ELSE NaN

\* parseFloat(v): v is first converted to a string
ParseFloat(v) ==
    CASE v.t = "number" -> v
      [] v.t = "string" /\ v.s \in NumericStrings -> NumV(HundredthsOf(v.s))
      [] OTHER -> NaN

\* v >= 0.0 && v <= 1.0 : false when v converts to NaN
InUnitRange(v) ==
    LET x == ToNumber(v) IN x # NaN /\ x.n >= 0 /\ x.n <= 100

\* x.toFixed(1) for x = h hundredths, 0 <= h: the text with one decimal,
\* n tenths (a tie rounds up).  NaN gives "NaN".
ToFixed1(x) ==
    IF x = NaN THEN StrV("NaN")
    ELSE [t |-> "string", s |-> "toFixed(1)", n |-> (x.n + 5) \div 10]

(***************************************************************************)
(* XML nodes, as the tree builder holds them: a name, a text (kind is      *)
(* "none", "text", "cdata" or "raw"), attributes and children.             *)
(***************************************************************************)
Node(name, kind, text, attrs, kids) ==
    [name |-> name, kind |-> kind, text |-> text, attrs |-> attrs, kids |-> kids]

\* element(name, text)
Elem(name, text) == Node(name, "text", text, {}, <<>>)
\* element(name, attributes, text)
ElemA(name, attrs, text) == Node(name, "text", text, attrs, <<>>)
\* element(name).cdata(text)
ElemC(name, text) == Node(name, "cdata", text, {}, <<>>)
\* element(name)
Empty(name) == Node(name, "none", Undef, {}, <<>>)

\* The bounds of safeDuration and of the description check.
MaxDuration == 28800
MaxDescription == 2048

\* safeDuration(duration) mutated: the upper bound is exclusive
safeDurationExclusive(duration) ==
    IF duration.n < 0 \/ duration.n >= MaxDuration
    THEN [err |-> Error("InvalidVideoDuration"), value |-> Undef]
    ELSE [err |-> NoError, value |-> duration]

\* safeDuration(duration), for a number: [err, value]
safeDuration(duration) ==
    IF duration.n < 0 \/ duration.n > MaxDuration
    THEN [err |-> Error("InvalidVideoDuration"), value |-> Undef]
    ELSE [err |-> NoError, value |-> duration]

(***************************************************************************)
(* buildVideoElement.  A video is a record of its keys; description is     *)
(* modelled by its length (0 when absent), tag by [isArray, items].        *)
(***************************************************************************)
\* The optional fields, in the order buildVideoElement handles them.
VideoFields ==
    <<"content_loc", "player_loc", "duration", "expiration_date", "rating",
      "view_count", "publication_date", "family_friendly", "tag", "category",
      "restriction", "gallery_loc", "price", "requires_subscription",
      "uploader", "platform", "live">>

\* videoxml.element(...) of one attribute-carrying field: attrBuilder may throw
VideoAttrElem(acc, video, f, keys) ==
    LET r == attrBuilder(video, keys) IN
    IF r.err # NoError THEN [acc EXCEPT !.err = r.err]
    ELSE [acc EXCEPT !.kids = Append(@, ElemA("video:" \o f, r.attrs, StrV(video[f])))]

\* The statement of buildVideoElement for the optional field f, on
\* acc = [err, kids] (the children of videoxml so far).
VideoStep(acc, video, f) ==
    IF acc.err # NoError THEN acc
    ELSE CASE f = "duration" ->
                IF ~TruthyV(video.duration) THEN acc
                ELSE LET d == safeDuration(video.duration) IN
                     IF d.err # NoError THEN [acc EXCEPT !.err = d.err]
                     ELSE [acc EXCEPT !.kids = Append(@, Elem("video:duration", d.value))]
           [] f = "tag" ->
                IF ~video.tag.isArray
                THEN IF Truthy(video.tag.items[1])
                     THEN [acc EXCEPT !.kids = Append(@, Elem("video:tag", StrV(video.tag.items[1])))]
                     ELSE acc
                ELSE [acc EXCEPT !.kids =
                        @ \o [i \in 1..Len(video.tag.items) |->
                                Elem("video:tag", StrV(video.tag.items[i]))]]
           [] f = "player_loc" ->
                IF ~Truthy(video[f]) THEN acc
                ELSE VideoAttrElem(acc, video, f, <<"player_loc:autoplay">>)
           [] f = "restriction" ->
                IF ~Truthy(video[f]) THEN acc
                ELSE VideoAttrElem(acc, video, f, <<"restriction:relationship">>)
           [] f = "price" ->
                IF ~Truthy(video[f]) THEN acc
                ELSE VideoAttrElem(acc, video, f,
                        <<"price:resolution", "price:currency", "price:type">>)
           [] f = "platform" ->
                IF ~Truthy(video[f]) THEN acc
                ELSE VideoAttrElem(acc, video, f, <<"platform:relationship">>)
           [] f = "gallery_loc" ->
                IF ~Truthy(video[f]) THEN acc
                ELSE [acc EXCEPT !.kids = Append(@,
                        ElemA("video:gallery_loc",
                              {<<"title", video["gallery_loc:title"]>>},
                              StrV(video[f])))]
           [] OTHER ->
                IF ~Truthy(video[f]) THEN acc
                ELSE [acc EXCEPT !.kids = Append(@, Elem("video:" \o f, StrV(video[f])))]

RECURSIVE VideoSteps(_, _, _)
VideoSteps(acc, video, i) ==
    IF i > Len(VideoFields) THEN acc
    ELSE VideoSteps(VideoStep(acc, video, VideoFields[i]), video, i + 1)

\* buildVideoElement(video): [err, node], node being the video:video element
\* as it stands in this.url when the method returns or throws.  The element
\* is created first, before anything is validated.
buildVideoElement(video) ==
    LET videoxml == Empty("video:video") IN
    IF ~video.isObject \/ ~Truthy(video.thumbnail_loc) \/ ~Truthy(video.title)
         \/ video.description = 0
    THEN [err |-> Error("InvalidVideoFormat"), node |-> videoxml]
    ELSE IF video.description > MaxDescription
    THEN [err |-> Error("InvalidVideoDescription"), node |-> videoxml]
    ELSE LET first == <<Elem("video:thumbnail_loc", StrV(video.thumbnail_loc)),
                        ElemC("video:title", StrV(video.title)),
                        ElemC("video:description", NumV(video.description))>>
             r == VideoSteps([err |-> NoError, kids |-> first], video, 1)
         IN  [err |-> r.err, node |-> [videoxml EXCEPT !.kids = r.kids]]

(***************************************************************************)
(* The SitemapItem class.  An optional object-valued field carries a kind  *)
(* or a defined flag: img and video are "undefined", "single" (one value,  *)
(* not in an array) or "array"; links is "undefined", "array" or "object"  *)
(* (a value without forEach).                                              *)
(***************************************************************************)
\* CHANGEFREQ of ./types
CHANGEFREQ == <<"always", "hourly", "daily", "weekly", "monthly", "yearly", "never">>

Range(seq) == {seq[i] : i \in 1..Len(seq)}

\* ut.getTimestampFromDate(dt, conf.lastmodrealtime): an opaque timestamp
getTimestampFromDate(dt) == "timestamp(" \o dt \o ")"

\* new Date(s).toISOString() for the expires values of the model; an
\* unparseable date makes toISOString throw a RangeError.
ValidDates == {"2019-01-01"}
toISOString(s) == s \o "T00:00:00.000Z"

\* !conf.url mutated: only an absent url counts as missing
urlMissingStrict(conf) == conf.url = Undefined

\* if (!conf.url)
urlMissing(conf) == ~Truthy(conf.url)

\* if (!isSafeUrl && this.priority)
\*   if (!(this.priority >= 0.0 && this.priority <= 1.0) || typeof this.priority !== 'number')
priorityInvalid(isSafeUrl, priority) ==
    /\ ~isSafeUrl
    /\ TruthyV(priority)
    /\ (~InUnitRange(priority) \/ priority.t # "number")

\* if (!isSafeUrl && this.changefreq)
\*   if (CHANGEFREQ.indexOf(this.changefreq) === -1)
changefreqInvalid(isSafeUrl, changefreq) ==
    /\ ~isSafeUrl
    /\ Truthy(changefreq)
    /\ changefreq \notin Range(CHANGEFREQ)

\* this.lastmod as the constructor derives it; fs.statSync throws for a
\* file that does not exist.
lastmodOf(conf) ==
    IF Truthy(conf.lastmodfile) THEN getTimestampFromDate("mtime")
    ELSE IF Truthy(conf.lastmod) THEN getTimestampFromDate(conf.lastmod)
    ELSE IF Truthy(conf.lastmodISO) THEN conf.lastmodISO
    ELSE Undefined

\* The fields of an item whose constructor has not assigned them.
NoItem(conf) ==
    [loc |-> Undefined, lastmod |-> Undefined, changefreq |-> Undefined,
     priority |-> Undef, news |-> [conf.news EXCEPT !.defined = FALSE],
     img |-> [kind |-> "undefined", items |-> <<>>],
     links |-> [kind |-> "undefined", items |-> <<>>],
     expires |-> Undefined, androidLink |-> Undefined, mobile |-> Undef,
     video |-> [kind |-> "undefined", items |-> <<>>], ampLink |-> Undefined]

\* x || null for a string
OrNull(x) == IF Truthy(x) THEN x ELSE Undefined

\* new SitemapItem(conf): [err, item, created].  created says whether
\* this.root.element('url') was reached; the fields are assigned in the
\* order of the code, so a throw leaves the later ones unassigned.
constructor(conf) ==
    LET isSafeUrl == conf.safe
        i0 == NoItem(conf)
        i1 == [i0 EXCEPT !.loc = conf.url]
        i2 == [i1 EXCEPT !.lastmod = lastmodOf(conf)]
        i3 == [i2 EXCEPT !.changefreq = conf.changefreq]
        i4 == [i3 EXCEPT !.priority = conf.priority]
        i5 == [i4 EXCEPT !.news = conf.news,
                         !.img = conf.img,
                         !.links = conf.links,
                         !.expires = OrNull(conf.expires),
                         !.androidLink = OrNull(conf.androidLink),
                         !.mobile = IF TruthyV(conf.mobile) THEN conf.mobile ELSE Undef,
                         !.video = conf.video,
                         !.ampLink = OrNull(conf.ampLink)]
    IN  IF urlMissing(conf)
        THEN [err |-> Error("NoURLError"), item |-> i0, created |-> FALSE]
        ELSE IF conf.lastmodfile = "missing-file"
        THEN [err |-> Error("ENOENT"), item |-> i1, created |-> FALSE]
        ELSE IF changefreqInvalid(isSafeUrl, conf.changefreq)
        THEN [err |-> Error("ChangeFreqInvalidError"), item |-> i3, created |-> FALSE]
        ELSE IF priorityInvalid(isSafeUrl, conf.priority)
        THEN [err |-> Error("PriorityInvalidError"), item |-> i4, created |-> FALSE]
        ELSE [err |-> NoError, item |-> i5, created |-> TRUE]

(***************************************************************************)
(* buildXML                                                                *)
(***************************************************************************)
\* props mutated: priority is handled after the images
propsPriorityLate ==
    <<"loc", "lastmod", "changefreq", "img", "priority", "video", "links",
      "expires", "androidLink", "mobile", "news", "ampLink">>

\* const props
props ==
    <<"loc", "lastmod", "changefreq", "priority", "img", "video", "links",
      "expires", "androidLink", "mobile", "news", "ampLink">>

\* this.url.children = [] mutated: the children of the last build are kept
resetChildrenKeep(url) == url.children

\* this.url.children = []
resetChildren(url) == <<>>

\* if (this[p]) for the property p of the item
TruthyProp(item, p) ==
    CASE p \in {"priority", "mobile"} -> TruthyV(item[p])
      [] p \in {"img", "video", "links"} -> item[p].kind # "undefined"
      [] p = "news" -> item[p].defined
      [] OTHER -> Truthy(item[p])

\* typeof (this[p]) !== 'object' || this[p].length === undefined: make it an array
MakeArray(v) == IF v.kind = "single" THEN [v EXCEPT !.kind = "array"] ELSE v

\* The children of image:image, in the order xmlObj receives its keys.
ImageKids(image) ==
    (IF ~image.isObject \/ Truthy(image.url)
        THEN <<Elem("image:loc", StrV(image.url))>> ELSE <<>>)
    \o (IF Truthy(image.caption)
        THEN <<ElemC("image:caption", StrV(image.caption))>> ELSE <<>>)
    \o (IF Truthy(image.geoLocation)
        THEN <<Elem("image:geo_location", StrV(image.geoLocation))>> ELSE <<>>)
    \o (IF Truthy(image.title)
        THEN <<ElemC("image:title", StrV(image.title))>> ELSE <<>>)
    \o (IF Truthy(image.license)
        THEN <<Elem("image:license", StrV(image.license))>> ELSE <<>>)

\* this.url.element({'image:image': xmlObj})
ImageNode(image) == Node("image:image", "none", Undef, {}, ImageKids(image))

\* this[p].forEach(this.buildVideoElement, this) from the i-th video on
RECURSIVE VideoEach(_, _, _)
VideoEach(acc, videos, i) ==
    IF i > Len(videos) \/ acc.err # NoError THEN acc
    ELSE LET r == buildVideoElement(videos[i]) IN
         VideoEach([acc EXCEPT !.err = r.err,
                               !.children = Append(@, r.node)], videos, i + 1)

\* The xhtml:link element of one entry of links
LinkNode(link) ==
    Node("xhtml:link", "none", Undef,
         {<<"rel", "alternate">>, <<"hreflang", link.lang>>, <<"href", link.url>>},
         <<>>)

\* The news branch: news:news is created first, then the fields are checked
\* and emitted; the result is [err, node].
NewsElement(news) ==
    LET newsitem == Empty("news:news")
        publication ==
            Node("news:publication", "none", Undef, {},
                 (IF Truthy(news.name)
                    THEN <<ElemC("news:name", StrV(news.name))>> ELSE <<>>)
                 \o (IF Truthy(news.language)
                    THEN <<Elem("news:language", StrV(news.language))>> ELSE <<>>))
        k1 == <<publication>>
        k2 == IF Truthy(news.access)
              THEN Append(k1, Elem("news:access", StrV(news.access))) ELSE k1
        k3 == IF Truthy(news.genres)
              THEN Append(k2, Elem("news:genres", StrV(news.genres))) ELSE k2
        k4 == k3 \o <<Elem("news:publication_date", StrV(news.publication_date)),
                     ElemC("news:title", StrV(news.title))>>
        k5 == IF Truthy(news.keywords)
              THEN Append(k4, Elem("news:keywords", StrV(news.keywords))) ELSE k4
        k6 == IF Truthy(news.stock_tickers)
              THEN Append(k5, Elem("news:stock_tickers", StrV(news.stock_tickers))) ELSE k5
    IN  IF ~news.hasPublication \/ ~Truthy(news.name) \/ ~Truthy(news.language)
           \/ ~Truthy(news.publication_date) \/ ~Truthy(news.title)
        THEN [err |-> Error("InvalidNewsFormat"), node |-> newsitem]
        ELSE IF Truthy(news.access)
                /\ news.access # "Registration" /\ news.access # "Subscription"
        THEN [err |-> Error("InvalidNewsAccessValue"),
              node |-> [newsitem EXCEPT !.kids = k1]]
        ELSE [err |-> NoError, node |-> [newsitem EXCEPT !.kids = k6]]

\* The text of the property p, for this.url.element(p, this[p])
PropText(item, p) == IF p = "priority" THEN item[p] ELSE StrV(item[p])

\* One turn of the while loop of buildXML, for the property p, on
\* acc = [err, children, img, video]: the if / else-if chain in its order.
BuildProp(acc, item, conf, p) ==
    IF acc.err # NoError THEN acc
    ELSE IF TruthyProp(item, p) /\ p = "img" THEN
        LET img == MakeArray(acc.img) IN
        [acc EXCEPT !.img = img,
                    !.children = @ \o [i \in 1..Len(img.items) |-> ImageNode(img.items[i])]]
    ELSE IF TruthyProp(item, p) /\ p = "video" THEN
        LET video == MakeArray(acc.video) IN
        VideoEach([acc EXCEPT !.video = video], video.items, 1)
    ELSE IF TruthyProp(item, p) /\ p = "links" THEN
        IF item.links.kind # "array" THEN [acc EXCEPT !.err = Error("TypeError")]
        ELSE [acc EXCEPT !.children =
                @ \o [i \in 1..Len(item.links.items) |-> LinkNode(item.links.items[i])]]
    ELSE IF TruthyProp(item, p) /\ p = "expires" THEN
        IF item.expires \notin ValidDates THEN [acc EXCEPT !.err = Error("RangeError")]
        ELSE [acc EXCEPT !.children = Append(@, Elem("expires", StrV(toISOString(item.expires))))]
    ELSE IF TruthyProp(item, p) /\ p = "androidLink" THEN
        [acc EXCEPT !.children = Append(@,
            Node("xhtml:link", "none", Undef,
                 {<<"rel", "alternate">>, <<"href", item.androidLink>>}, <<>>))]
    ELSE IF TruthyProp(item, p) /\ p = "mobile" THEN
        [acc EXCEPT !.children = Append(@,
            Node("mobile:mobile", "none", Undef,
                 IF item.mobile.t = "string" THEN {<<"type", item.mobile.s>>} ELSE {},
                 <<>>))]
    ELSE IF p = "priority" /\ InUnitRange(item.priority) THEN
        [acc EXCEPT !.children = Append(@, Elem(p, ToFixed1(ParseFloat(item.priority))))]
    ELSE IF TruthyProp(item, p) /\ p = "ampLink" THEN
        [acc EXCEPT !.children = Append(@,
            Node("xhtml:link", "none", Undef,
                 {<<"rel", "amphtml">>, <<"href", item.ampLink>>}, <<>>))]
    ELSE IF TruthyProp(item, p) /\ p = "news" THEN
        LET r == NewsElement(item.news) IN
        [acc EXCEPT !.err = r.err, !.children = Append(@, r.node)]
    ELSE IF TruthyProp(item, p) THEN
        IF p = "loc" /\ conf.cdata
        THEN [acc EXCEPT !.children = Append(@, Node(p, "raw", StrV(item.loc), {}, <<>>))]
        ELSE [acc EXCEPT !.children = Append(@, Elem(p, PropText(item, p)))]
    ELSE acc

RECURSIVE BuildLoop(_, _, _, _)
BuildLoop(acc, item, conf, ps) ==
    IF ps > Len(props) THEN acc
    ELSE BuildLoop(BuildProp(acc, [item EXCEPT !.img = acc.img, !.video = acc.video],
                             conf, props[ps]),
                   item, conf, ps + 1)

\* buildXML(): [err, children, img, video], the children of this.url and the
\* img and video fields when the method returns or throws
buildXML(item, conf, url) ==
    BuildLoop([err |-> NoError, children |-> resetChildren(url),
               img |-> item.img, video |-> item.video], item, conf, 1)

(***************************************************************************)
(* The inputs: videos, images, links, news and configurations.             *)
(***************************************************************************)
VideoStringKeys ==
    {"thumbnail_loc", "title", "content_loc", "player_loc", "player_loc:autoplay",
     "expiration_date", "rating", "view_count", "publication_date",
     "family_friendly", "category", "restriction", "restriction:relationship",
     "gallery_loc", "gallery_loc:title", "price", "price:resolution",
     "price:currency", "price:type", "requires_subscription", "uploader",
     "platform", "platform:relationship", "live"}

NoTag == [isArray |-> FALSE, items |-> <<Undefined>>]

\* {thumbnail_loc: "t.jpg", title: "T", description: "D"}
MinimalVideo ==
    [k \in VideoStringKeys |->
        CASE k = "thumbnail_loc" -> "t.jpg" [] k = "title" -> "T" [] OTHER -> Undefined]
    @@ [isObject |-> TRUE, description |-> 1, duration |-> Undef, tag |-> NoTag]

\* A second video, told from the first by its thumbnail
OtherVideo == [MinimalVideo EXCEPT !.thumbnail_loc = "t2.jpg", !.title = "T2"]

\* A video with every optional field
FullVideo ==
    [k \in VideoStringKeys |->
        CASE k = "thumbnail_loc" -> "t.jpg"
          [] k = "title" -> "T"
          [] k = "player_loc:autoplay" -> "yes"
          [] k = "restriction:relationship" -> "allow"
          [] k = "platform:relationship" -> "deny"
          [] k = "price:resolution" -> "HD"
          [] k = "price:currency" -> "USD"
          [] k = "price:type" -> "rent"
          [] OTHER -> k]
    @@ [isObject |-> TRUE, description |-> MaxDescription, duration |-> NumV(600),
        tag |-> [isArray |-> TRUE, items |-> <<"tag1", "tag2">>]]

\* Videos that differ in the required fields; a string in place of a video
RequiredVideos ==
    {[MinimalVideo EXCEPT !.thumbnail_loc = a, !.title = b, !.description = d] :
        a \in {Undefined, "t.jpg"}, b \in {Undefined, "T"},
        d \in {0, 1, MaxDescription, MaxDescription + 1}}
    \cup {[MinimalVideo EXCEPT !.isObject = FALSE]}

Durations ==
    {Undef, NaN, NumV(-1), NumV(0), NumV(1), NumV(600), NumV(MaxDuration),
     NumV(MaxDuration + 1)}

DurationVideos ==
    {[MinimalVideo EXCEPT !.duration = d, !.description = l] :
        d \in Durations, l \in {1, MaxDescription}}

TagVideos ==
    {[MinimalVideo EXCEPT !.tag = t] :
        t \in {[isArray |-> FALSE, items |-> <<"tag1">>],
               [isArray |-> TRUE, items |-> <<>>],
               [isArray |-> TRUE, items |-> <<"tag2", "tag1">>]}}

\* Videos that differ in the fields with attributes and in the attributes
AttrVideos ==
    {[MinimalVideo EXCEPT !["price"] = p, !["price:currency"] = pc,
                          !["price:type"] = pt, !["price:resolution"] = pr,
                          !["platform"] = pl, !["platform:relationship"] = plr,
                          !["restriction"] = re, !["restriction:relationship"] = rer] :
        p \in {Undefined, "1.99"}, pc \in {Undefined, "USD", "usd"},
        pt \in {Undefined, "rent", "Rent", "rental"},
        pr \in {Undefined, "HD", "Hd"},
        pl \in {Undefined, "web"}, plr \in {Undefined, "allow", "allowed"},
        re \in {Undefined, "US"}, rer \in {Undefined, "deny", "Allow"}}

Videos ==
    RequiredVideos \cup DurationVideos \cup TagVideos \cup AttrVideos
    \cup {OtherVideo, FullVideo}

NoVideo == [kind |-> "undefined", items |-> <<>>]
NoImg == [kind |-> "undefined", items |-> <<>>]
NoLinks == [kind |-> "undefined", items |-> <<>>]

Image(isObject, url, caption, title) ==
    [isObject |-> isObject, url |-> url, caption |-> caption,
     geoLocation |-> Undefined, title |-> title, license |-> Undefined]

Imgs ==
    {NoImg,
     [kind |-> "single", items |-> <<Image(FALSE, "a.png", Undefined, Undefined)>>],
     [kind |-> "single", items |-> <<Image(TRUE, "b.png", "cap", "title")>>],
     [kind |-> "array", items |-> <<Image(TRUE, "b.png", "cap", Undefined),
                                    Image(FALSE, "a.png", Undefined, Undefined),
                                    Image(TRUE, Undefined, Undefined, Undefined)>>]}

Links ==
    {NoLinks,
     [kind |-> "array", items |-> <<[lang |-> "en", url |-> "http://x/en"],
                                    [lang |-> "de", url |-> "http://x/de"]>>],
     [kind |-> "object", items |-> <<>>]}

News(defined, language, access) ==
    [defined |-> defined, hasPublication |-> TRUE, name |-> "The Paper",
     language |-> language, publication_date |-> "2019-01-01", title |-> "Title",
     access |-> access, genres |-> "Blog", keywords |-> Undefined,
     stock_tickers |-> "NASDAQ:A"]

NoNews == News(FALSE, Undefined, Undefined)

Newses ==
    {NoNews, News(TRUE, "en", Undefined), News(TRUE, "en", "Subscription"),
     News(TRUE, Undefined, Undefined), News(TRUE, "en", "Free"),
     [News(TRUE, "en", Undefined) EXCEPT !.hasPublication = FALSE]}

Priorities ==
    {Undef, Null, NaN, NumV(0), NumV(70), NumV(75), NumV(100), NumV(150),
     NumV(-10), StrV(""), StrV("0.5"), StrV("abc"), BoolV("true")}

\* {url: "https://example.com/a"}
BaseConf ==
    [url |-> "https://example.com/a", safe |-> FALSE, lastmodfile |-> Undefined,
     lastmod |-> Undefined, lastmodISO |-> Undefined, changefreq |-> Undefined,
     priority |-> Undef, news |-> NoNews, img |-> NoImg, links |-> NoLinks,
     expires |-> Undefined, androidLink |-> Undefined, mobile |-> Undef,
     video |-> NoVideo, ampLink |-> Undefined, root |-> FALSE, cdata |-> FALSE]

\* The sources of lastmod: <<lastmodfile, lastmod, lastmodISO>>
LastmodSources ==
    {<<Undefined, Undefined, Undefined>>,
     <<"file", "2011-06-27", "2011-06-27T00:00:00.000Z">>,
     <<"missing-file", Undefined, "2011-06-27T00:00:00.000Z">>,
     <<Undefined, "2011-06-27", "2011-06-27T00:00:00.000Z">>,
     <<Undefined, Undefined, "2011-06-27T00:00:00.000Z">>}

\* Configurations that differ in the fields the constructor checks
ScalarConfs ==
    {[BaseConf EXCEPT !.url = u, !.safe = s, !.lastmodfile = lm[1], !.lastmod = lm[2],
                      !.lastmodISO = lm[3], !.changefreq = cf, !.priority = pr,
                      !.root = r, !.cdata = cd] :
        u \in {Undefined, "", "https://example.com/a"}, s \in BOOLEAN,
        lm \in LastmodSources,
        cf \in {Undefined, "daily", "sometimes"}, pr \in Priorities,
        r \in BOOLEAN, cd \in BOOLEAN}

VideoLists ==
    {NoVideo, [kind |-> "single", items |-> <<MinimalVideo>>],
     [kind |-> "array", items |-> <<OtherVideo, FullVideo>>],
     [kind |-> "array",
      items |-> <<MinimalVideo, [MinimalVideo EXCEPT !.title = Undefined], OtherVideo>>]}

\* Configurations that differ in the extensions they have
ExtensionConfs ==
    {[BaseConf EXCEPT !.changefreq = "daily", !.priority = pr, !.img = im,
                      !.video = v, !.links = l, !.expires = e, !.androidLink = al,
                      !.mobile = m, !.news = n, !.ampLink = am] :
        pr \in {Undef, NumV(70)}, im \in Imgs, v \in VideoLists,
        l \in {NoLinks, CHOOSE x \in Links : x.kind = "array"},
        e \in {Undefined, "2019-01-01"}, al \in {Undefined, "android-app://x"},
        m \in {Undef, BoolV("true"), StrV("pc")},
        n \in {NoNews, News(TRUE, "en", Undefined), News(TRUE, "en", "Subscription")},
        am \in {Undefined, "http://x/amp"}}

\* Configurations with every extension, some of them invalid
FailingConfs ==
    {[BaseConf EXCEPT !.lastmodISO = "2011-06-27T00:00:00.000Z",
                      !.changefreq = "daily", !.priority = NumV(70),
                      !.img = im, !.video = v, !.links = l, !.expires = e,
                      !.androidLink = "android-app://x", !.mobile = StrV("pc"),
                      !.news = n, !.ampLink = "http://x/amp"] :
        im \in {x \in Imgs : x.kind = "array"}, v \in VideoLists, l \in Links \ {NoLinks},
        e \in {"2019-01-01", "garbage"}, n \in Newses}

\* Configurations that differ in their video
VideoConfs ==
    {[BaseConf EXCEPT !.safe = s, !.video = [kind |-> "single", items |-> <<v>>]] :
        s \in BOOLEAN, v \in Videos}

Confs == ScalarConfs \cup ExtensionConfs \cup FailingConfs \cup VideoConfs

(***************************************************************************)
(* The state: one configuration and the item made from it, and one call of *)
(* attrBuilder.                                                            *)
(***************************************************************************)
VARIABLES
    conf,        \* the configuration given to the constructor
    pc,          \* "new", "constructed", "failed"; "call", "returned" (attrBuilder)
    item,        \* the fields of the SitemapItem (this.loc ... this.ampLink)
    url,         \* this.url: [children, attributes]
    root,        \* the children of this.root
    err,         \* the error the last operation threw, or NoError
    builds,      \* the number of buildXML calls made
    firstBuild,  \* what the first buildXML call left: [err, children]
    attrConf,    \* attrBuilder: the conf argument
    attrKeys,    \* attrBuilder: the keys argument
    attrResult   \* attrBuilder: [err, attrs]

vars ==
    <<conf, pc, item, url, root, err, builds, firstBuild, attrConf, attrKeys, attrResult>>

\* The children of the root the caller supplies (conf.root), or of the root
\* the constructor creates when there is none.
RootOf(c) == IF c.root THEN <<"url">> ELSE <<>>

NoBuild == [err |-> NoError, children |-> <<>>]
NoResult == [err |-> NoError, attrs |-> {}]

Init ==
    /\ conf \in Confs
    /\ pc = "new"
    /\ item = NoItem(conf)
    /\ url = [children |-> <<>>, attributes |-> {}]
    /\ root = RootOf(conf)
    /\ err = NoError
    /\ builds = 0
    /\ firstBuild = NoBuild
    /\ attrConf = <<>>
    /\ attrKeys = <<>>
    /\ attrResult = NoResult

\* new SitemapItem(conf)
Construct ==
    /\ pc = "new"
    /\ LET r == constructor(conf) IN
        /\ pc' = IF r.err = NoError THEN "constructed" ELSE "failed"
        /\ item' = r.item
        /\ err' = r.err
        /\ root' = IF r.created THEN Append(root, "url") ELSE root
    /\ UNCHANGED <<conf, url, builds, firstBuild, attrConf, attrKeys, attrResult>>

\* item.toString(), item.toXML() or item.buildXML()
toString ==
    /\ pc = "constructed"
    /\ builds < MaxBuilds
    /\ LET r == buildXML(item, conf, url) IN
        /\ url' = [children |-> r.children, attributes |-> {}]
        /\ item' = [item EXCEPT !.img = r.img, !.video = r.video]
        /\ err' = r.err
        /\ firstBuild' = IF builds = 0 THEN [err |-> r.err, children |-> r.children]
                         ELSE firstBuild
    /\ builds' = builds + 1
    /\ UNCHANGED <<conf, pc, root, attrConf, attrKeys, attrResult>>

Next == Construct \/ toString

Spec == Init /\ [][Next]_vars

(***************************************************************************)
(* attrBuilder on its own: the arguments are drawn at the start and the    *)
(* one action calls it.                                                    *)
(***************************************************************************)
AttrKeys ==
    {"player_loc:autoplay", "restriction:relationship", "price:resolution",
     "price:currency", "price:type", "platform:relationship", "bogus", "a:b:c"}

AttrValues ==
    {Undefined, "allow", "deny", "allowed", "Allow", "USD", "usd", "rent",
     "purchase", "RENT", "PURCHASE", "Rent", "rental", "HD", "hd", "sd", "SD",
     "Hd", "hdr", "yes"}

AttrValuesFew == {Undefined, "allow", "deny", "USD", "usd", "Rent"}

\* One key, two different keys, and the three keys of video:price
KeyLists ==
    {<<k>> : k \in AttrKeys}
    \cup {ks \in AttrKeys \X AttrKeys : ks[1] # ks[2]}
    \cup {<<"price:resolution", "price:currency", "price:type">>}

InitAttr ==
    /\ attrKeys \in KeyLists
    /\ attrConf \in [Range(attrKeys) ->
                        IF Len(attrKeys) = 1 THEN AttrValues ELSE AttrValuesFew]
    /\ attrResult = NoResult
    /\ pc = "call"
    /\ conf = BaseConf
    /\ item = NoItem(conf)
    /\ url = [children |-> <<>>, attributes |-> {}]
    /\ root = <<>>
    /\ err = NoError
    /\ builds = 0
    /\ firstBuild = NoBuild

\* attrBuilder(attrConf, attrKeys)
CallAttrBuilder ==
    /\ pc = "call"
    /\ attrResult' = attrBuilder(attrConf, attrKeys)
    /\ pc' = "returned"
    /\ UNCHANGED <<conf, item, url, root, err, builds, firstBuild, attrConf, attrKeys>>

NextAttr == CallAttrBuilder

SpecAttr == InitAttr /\ [][NextAttr]_vars

(***************************************************************************)
(* The claims.  The domains of the validated attributes are stated here as *)
(* the data model gives them, without regular expressions.                 *)
(***************************************************************************)
ToLower ==
    "A" :> "a" @@ "B" :> "b" @@ "C" :> "c" @@ "D" :> "d" @@ "E" :> "e" @@ "F" :> "f" @@
    "G" :> "g" @@ "H" :> "h" @@ "I" :> "i" @@ "J" :> "j" @@ "K" :> "k" @@ "L" :> "l" @@
    "M" :> "m" @@ "N" :> "n" @@ "O" :> "o" @@ "P" :> "p" @@ "Q" :> "q" @@ "R" :> "r" @@
    "S" :> "s" @@ "T" :> "t" @@ "U" :> "u" @@ "V" :> "v" @@ "W" :> "w" @@ "X" :> "x" @@
    "Y" :> "y" @@ "Z" :> "z"

Lower(s) == [i \in 1..Len(s) |-> IF s[i] \in DOMAIN ToLower THEN ToLower[s[i]] ELSE s[i]]

\* The value v is in the domain of the validated key k
InDomain(k, v) ==
    CASE k \in {"platform:relationship", "restriction:relationship"} ->
            v \in {"allow", "deny"}
      [] k = "price:currency" ->
            Len(Chars[v]) = 3 /\ \A i \in 1..3 : Chars[v][i] \in UpperLetters
      [] k = "price:type" -> Lower(Chars[v]) \in {Chars["rent"], Chars["purchase"]}
      [] k = "price:resolution" -> Lower(Chars[v]) \in {Chars["hd"], Chars["sd"]}

Constructed == pc \in {"constructed", "failed"}
children == url.children

ChildrenNamed(name) == SelectSeq(children, LAMBDA c : c.name = name)
HasAttr(node, name) == \E a \in node.attrs : a[1] = name
AttrOf(node, name) == (CHOOSE a \in node.attrs : a[1] = name)[2]
KidsNamed(node, name) == SelectSeq(node.kids, LAMBDA c : c.name = name)

\* C1: a configuration without url (absent or empty) is refused with
\* NoURLError whatever its other fields are, nothing is added to the root,
\* and an item that exists has a location.
Thm_C1 ==
    /\ (Constructed /\ conf.url \in {Undefined, ""}) =>
          (pc = "failed" /\ err = Error("NoURLError") /\ root = RootOf(conf))
    /\ pc = "constructed" => (item.loc = conf.url /\ item.loc \notin {Undefined, ""})

\* C1: an empty url is refused although safe is set, the file of
\* lastmodfile is missing and priority and changefreq are invalid.
Wit_C1 ==
    /\ pc = "failed" /\ err = Error("NoURLError")
    /\ conf.url = "" /\ conf.safe /\ conf.lastmodfile = "missing-file"
    /\ conf.priority = NumV(150) /\ conf.changefreq = "sometimes"

\* C2 as stated: with a url and safe unset, construction fails with
\* PriorityInvalidError exactly when the priority given is not a number or is
\* a number outside [0, 1].  (Only configurations whose changefreq is valid
\* and that name no lastmodfile are considered, so that no other check
\* comes first.)
CE_C2 ==
    (/\ Constructed /\ Truthy(conf.url) /\ ~conf.safe
     /\ conf.lastmodfile = Undefined
     /\ conf.changefreq \in {Undefined} \cup Range(CHANGEFREQ)
     /\ conf.priority.t \in {"number", "string", "boolean"}
     /\ conf.priority # NaN)
    => LET bad == \/ conf.priority.t # "number"
                  \/ conf.priority.n < 0
                  \/ conf.priority.n > 100
       IN  /\ bad => (pc = "failed" /\ err = Error("PriorityInvalidError"))
           /\ ~bad => pc = "constructed"

PriorityChildren == ChildrenNamed("priority")

\* C3 as stated: the item of a safe configuration with a numeric priority
\* outside [0, 1] has no priority child after any build, and a numeric
\* priority inside [0, 1] gives one priority child with one decimal place.
CE_C3 ==
    (builds >= 1 /\ conf.priority.t = "number" /\ conf.priority # NaN)
    => IF conf.priority.n < 0 \/ conf.priority.n > 100
       THEN conf.safe => PriorityChildren = <<>>
       ELSE /\ Len(PriorityChildren) = 1
            /\ PriorityChildren[1].text.s = "toFixed(1)"

\* The group of a child of the item node, by its place in the order loc,
\* lastmod, changefreq, priority, images, videos, links, expires,
\* android-alternate link, mobile, news, amp-alternate link.
GroupOf(c) ==
    CASE c.name = "loc" -> 1
      [] c.name = "lastmod" -> 2
      [] c.name = "changefreq" -> 3
      [] c.name = "priority" -> 4
      [] c.name = "image:image" -> 5
      [] c.name = "video:video" -> 6
      [] c.name = "xhtml:link" /\ HasAttr(c, "hreflang") -> 7
      [] c.name = "expires" -> 8
      [] c.name = "xhtml:link" /\ ~HasAttr(c, "hreflang")
            /\ AttrOf(c, "rel") = "alternate" -> 9
      [] c.name = "mobile:mobile" -> 10
      [] c.name = "news:news" -> 11
      [] c.name = "xhtml:link" /\ AttrOf(c, "rel") = "amphtml" -> 12

InGroup(g) == SelectSeq(children, LAMBDA c : GroupOf(c) = g)

\* The text of the kid of node c named name
KidText(c, name) == KidsNamed(c, name)[1].text.s

\* C4: after a build that succeeds the children stand in the fixed group
\* order, each scalar group has at most one child, and the images, videos
\* and links are those of the configuration, in its order.
Thm_C4 ==
    (builds >= 1 /\ err = NoError) =>
      /\ \A i, j \in 1..Len(children) : i < j => GroupOf(children[i]) <= GroupOf(children[j])
      /\ \A g \in {1, 2, 3, 4, 8, 9, 10, 11, 12} : Len(InGroup(g)) <= 1
      /\ Len(InGroup(1)) = 1
      /\ Len(InGroup(5)) = Len(conf.img.items)
      /\ \A i \in 1..Len(conf.img.items) :
            IF ~conf.img.items[i].isObject \/ Truthy(conf.img.items[i].url)
            THEN KidText(InGroup(5)[i], "image:loc") = conf.img.items[i].url
            ELSE KidsNamed(InGroup(5)[i], "image:loc") = <<>>
      /\ Len(InGroup(6)) = Len(conf.video.items)
      /\ \A i \in 1..Len(conf.video.items) :
            KidText(InGroup(6)[i], "video:thumbnail_loc") = conf.video.items[i].thumbnail_loc
      /\ Len(InGroup(7)) = Len(conf.links.items)
      /\ \A i \in 1..Len(conf.links.items) :
            AttrOf(InGroup(7)[i], "href") = conf.links.items[i].url

\* C4: a build that succeeded and emitted children of all twelve groups,
\* with several images, videos and links.
Wit_C4 ==
    /\ builds >= 1 /\ err = NoError
    /\ \A g \in 1..12 : InGroup(g) # <<>>
    /\ Len(InGroup(5)) > 1 /\ Len(InGroup(6)) > 1 /\ Len(InGroup(7)) > 1

\* The errors the validation of a configuration or of its extensions throws
ValidationErrors ==
    {"NoURLError", "ChangeFreqInvalidError", "PriorityInvalidError",
     "InvalidVideoFormat", "InvalidVideoDescription", "InvalidVideoDuration",
     "InvalidAttr", "InvalidAttrValue", "InvalidNewsFormat", "InvalidNewsAccessValue"}

\* C5 as stated: a construction that fails adds no url node to the root,
\* and after a build that fails with a validation error the url node keeps
\* no children of the failed build.
CE_C5 ==
    /\ pc = "failed" => root = RootOf(conf)
    /\ (builds >= 1 /\ err.name \in ValidationErrors) => children = <<>>

\* C6: every build of an item leaves the children, and the outcome, that
\* the first build left.
Thm_C6 ==
    builds >= 1 => (children = firstBuild.children /\ err = firstBuild.err)

\* C6: a second build of an item whose single image and single video the
\* first build put into arrays, with children of several groups.
Wit_C6 ==
    /\ builds >= 2 /\ err = NoError
    /\ conf.img.kind = "single" /\ item.img.kind = "array"
    /\ conf.video.kind = "single" /\ item.video.kind = "array"
    /\ Len(children) > 4

\* The configurations of C7: one video with thumbnail_loc, title, a
\* description of at most 2048 characters and a duration that is a number,
\* and no attribute-carrying field.
DurationCase ==
    /\ builds >= 1
    /\ conf.video.kind = "single"
    /\ LET v == conf.video.items[1] IN
        /\ v.isObject /\ Truthy(v.thumbnail_loc) /\ Truthy(v.title)
        /\ v.description >= 1 /\ v.description <= 2048
        /\ v.duration.t = "number" /\ v.duration # NaN
        /\ \A k \in {"player_loc", "restriction", "price", "platform"} : v[k] = Undefined

TheDuration == conf.video.items[1].duration
DurationKids == KidsNamed(ChildrenNamed("video:video")[1], "video:duration")

CE_C8 ==
    (/\ builds >= 1
     /\ conf.video.kind = "single"
     /\ LET v == conf.video.items[1] IN
         /\ v.isObject /\ Truthy(v.thumbnail_loc) /\ Truthy(v.title)
         /\ v.description >= 1 /\ v.description <= 2048
         /\ v.duration = Undef
         /\ \E k \in ValidatedKeys : v[k] # Undefined /\ ~InDomain(k, v[k]))
    => err.name = "InvalidAttrValue"

\* The number of colons of the key k
Colons(k) == Cardinality({i \in 1..Len(Chars[k]) : Chars[k][i] = ":"})
WellFormed(k) == Colons(k) = 1

\* The part of a well-formed key after its colon
Subkey(k) ==
    LET c == Chars[k]
        i == CHOOSE j \in 1..Len(c) : c[j] = ":"
    IN  Str(SubSeq(c, i + 1, Len(c)))

\* C9 as stated: called with one validated key that has a value, the
\* attribute extractor returns exactly when the value is in the key's
\* domain, and otherwise fails with InvalidAttrValue.
CE_C9 ==
    (/\ pc = "returned" /\ Len(attrKeys) = 1
     /\ attrKeys[1] \in ValidatedKeys
     /\ attrConf[attrKeys[1]] # Undefined)
    => IF InDomain(attrKeys[1], attrConf[attrKeys[1]])
       THEN attrResult = [err |-> NoError,
                          attrs |-> {<<Subkey(attrKeys[1]), attrConf[attrKeys[1]]>>}]
       ELSE attrResult.err = InvalidAttrValue(attrKeys[1], attrConf[attrKeys[1]])

Defined(i) == attrConf[attrKeys[i]] # Undefined
Malformed(i) == ~WellFormed(attrKeys[i])

\* C10 as stated: a key that is not of the form category:subkey is always
\* rejected with InvalidAttr naming it, and for well-formed keys the mapping
\* returned holds subkey -> value for exactly the keys with a defined value.
CE_C10 ==
    pc = "returned" =>
      /\ (\E i \in 1..Len(attrKeys) : Malformed(i)) =>
            \E i \in 1..Len(attrKeys) :
                Malformed(i) /\ attrResult.err = InvalidAttr(attrKeys[i])
      /\ ((\A i \in 1..Len(attrKeys) : ~Malformed(i)) /\ attrResult.err = NoError) =>
            attrResult.attrs =
                {<<Subkey(attrKeys[i]), attrConf[attrKeys[i]]>> :
                    i \in {j \in 1..Len(attrKeys) : Defined(j)}}

\* C10 amended: a malformed key is rejected when the source has a defined
\* value for it (and ignored when it has none): the call then fails, with
\* InvalidAttr naming the first such key unless an earlier well-formed key
\* failed with InvalidAttrValue; InvalidAttr is thrown in no other case.  A
\* call that returns gives subkey -> value for exactly the keys with a
\* defined value, the later key winning when two keys share a subkey.
Thm_C10 ==
    pc = "returned" =>
      LET bad == {i \in 1..Len(attrKeys) : Malformed(i) /\ Defined(i)}
          first == CHOOSE i \in bad : \A j \in bad : i <= j
      IN
      /\ bad # {} =>
            /\ attrResult.err # NoError
            /\ attrResult.err.name = "InvalidAttr" => attrResult.err = InvalidAttr(attrKeys[first])
            /\ attrResult.err.name = "InvalidAttrValue" =>
                  \E j \in 1..(first - 1) :
                      /\ Defined(j) /\ attrKeys[j] \in ValidatedKeys
                      /\ attrResult.err.key = attrKeys[j]
            /\ (\A j \in 1..(first - 1) : ~Defined(j) \/ attrKeys[j] \notin ValidatedKeys)
                  => attrResult.err = InvalidAttr(attrKeys[first])
      /\ bad = {} => attrResult.err.name # "InvalidAttr"
      /\ attrResult.err = NoError =>
            attrResult.attrs =
                {<<Subkey(attrKeys[i]), attrConf[attrKeys[i]]>> :
                    i \in {j \in 1..Len(attrKeys) :
                              /\ Defined(j)
                              /\ \A l \in (j + 1)..Len(attrKeys) :
                                    Defined(l) => Subkey(attrKeys[l]) # Subkey(attrKeys[j])}}

\* C10: the key a:b:c, with a value, rejected after a well-formed key was
\* accepted.
Wit_C10 ==
    /\ pc = "returned"
    /\ Len(attrKeys) = 2 /\ attrKeys[2] = "a:b:c"
    /\ WellFormed(attrKeys[1]) /\ Defined(1) /\ Defined(2)
    /\ attrResult.err = InvalidAttr("a:b:c")

====
